---- MODULE Spec2Model ----
(***************************************************************************)
(* A model of the ledger package of MINI_BUDGET: the Transaction value     *)
(* type (ledger/models.py), the CSV backed LedgerRepository                *)
(* (ledger/repository.py), the month range helper (ledger/utils.py) and    *)
(* the aggregation functions of LedgerService (ledger/services.py).        *)
(*                                                                         *)
(* Encoding of Python values                                               *)
(*   str        a tuple of one-character strings, " " the whitespace       *)
(*   float      [nan, v]: an integer valued float or NaN                   *)
(*   datetime   [y, m, d, s]: calendar date and second of the day          *)
(*   '수입' / '지출'  the tokens "income" / "expense"                      *)
(* Specifications: Spec is the repository and the service on top of it;   *)
(* SpecEdit the update and the deletion by index; SpecPure applies the     *)
(* pure functions to inputs drawn in its Init; SpecConc is two callers of  *)
(* save_transaction on one file; SpecUI is the save button of app.py;      *)
(* SpecRead is the read-only operations on a store.                        *)
(*                                                                         *)
(* Amounts are whole numbers (the UI enters integers; float sums of them   *)
(* are exact).  Texts are short non-numeric strings, so pandas' inference   *)
(* of numeric columns is not in play; rows have five cells.  The stray     *)
(* text on line 1 of ledger/repository.py, which keeps the module from     *)
(* being imported as it stands, is left aside: the methods are modelled    *)
(* as written.                                                             *)
(***************************************************************************)
EXTENDS Integers, Sequences, FiniteSets, TLC

VARIABLES
    csv_exists,    \* whether data/ledger.csv exists
    csv_rows,      \* the data rows of data/ledger.csv (text cells), in file order
    op,            \* the operation that ran last
    args,          \* its arguments
    ret,           \* what it returned, or the exception it raised
    log,           \* history: the transactions appended, whether the file
                   \* holds nothing but them, whether it was emptied by
                   \* delete_all_transactions and whether it held rows then
    proc           \* the callers of save_transaction that run concurrently:
                   \* where each is, and the DataFrame it has read

vars == <<csv_exists, csv_rows, op, args, ret, log, proc>>

(***************************************************************************)
(* Bounds of the model                                                     *)
(***************************************************************************)
MaxRows == 3     \* data rows the file may hold
MaxPre == 1      \* rows already in the file when the repository is built
MaxSeq == 3      \* length of an input list of the aggregation functions

(***************************************************************************)
(* str                                                                     *)
(***************************************************************************)
RECURSIVE LStrip(_)
LStrip(s) ==
    IF s = <<>> THEN s
    ELSE IF Head(s) = " " THEN LStrip(Tail(s)) ELSE s

RECURSIVE RStrip(_)
RStrip(s) ==
    IF s = <<>> THEN s
    ELSE IF s[Len(s)] = " " THEN RStrip(SubSeq(s, 1, Len(s) - 1)) ELSE s

\* str.strip()
Strip(s) == RStrip(LStrip(s))

\* str(float('nan'))
NanStr == <<"n", "a", "n">>

(***************************************************************************)
(* float                                                                   *)
(***************************************************************************)
Num(n) == [nan |-> FALSE, v |-> n]
NaN == [nan |-> TRUE, v |-> 0]

FLt(a, b) == ~a.nan /\ ~b.nan /\ a.v < b.v
FGe(a, b) == ~a.nan /\ ~b.nan /\ a.v >= b.v
FGt(a, b) == ~a.nan /\ ~b.nan /\ a.v > b.v
FEq(a, b) == ~a.nan /\ ~b.nan /\ a.v = b.v
FAdd(a, b) == IF a.nan \/ b.nan THEN NaN ELSE Num(a.v + b.v)
FSub(a, b) == IF a.nan \/ b.nan THEN NaN ELSE Num(a.v - b.v)
FNeg(a) == IF a.nan THEN NaN ELSE Num(0 - a.v)

(***************************************************************************)
(* datetime                                                                *)
(***************************************************************************)
DT(y, m, d, s) == [y |-> y, m |-> m, d |-> d, s |-> s]

IsLeap(y) == (y % 4 = 0 /\ y % 100 # 0) \/ y % 400 = 0

\* calendar.monthrange(year, month)[1]
monthrange(y, m) ==
    IF m \in {1, 3, 5, 7, 8, 10, 12} THEN 31
    ELSE IF m = 2 THEN (IF IsLeap(y) THEN 29 ELSE 28)
    ELSE 30

ValidDate(y, m, d) == m \in 1..12 /\ d >= 1 /\ d <= monthrange(y, m)

\* the order of datetime values
DtLt(a, b) ==
    \/ a.y < b.y
    \/ a.y = b.y /\ a.m < b.m
    \/ a.y = b.y /\ a.m = b.m /\ a.d < b.d
    \/ a.y = b.y /\ a.m = b.m /\ a.d = b.d /\ a.s < b.s
DtLe(a, b) == a = b \/ DtLt(a, b)

SameDay(a, b) == a.y = b.y /\ a.m = b.m /\ a.d = b.d

\* seconds of the day
Noon == 12 * 3600                       \* 12:00:00
EndOfDay == (23 * 3600) + (59 * 60) + 59   \* 23:59:59

(***************************************************************************)
(* Transaction (ledger/models.py)                                          *)
(***************************************************************************)
INCOME == "income"      \* '수입'
EXPENSE == "expense"    \* '지출'

NoTx ==
    [date |-> DT(0, 0, 0, 0), category |-> <<>>, amount |-> NaN,
     transaction_type |-> "", description |-> <<>>]

Raise(e) == [exc |-> e, tx |-> NoTx]
Return(t) == [exc |-> "none", tx |-> t]

\* Transaction.__init__ with the amount check dropped
InitNoAmountCheck(date, category, amount, transaction_type, description) ==
    IF date.ty # "datetime" THEN Raise("TypeError")
    ELSE IF category.ty # "str" THEN Raise("TypeError")
    ELSE IF amount.ty \notin {"int", "float"} THEN Raise("TypeError")
    ELSE IF transaction_type \notin {INCOME, EXPENSE} THEN Raise("ValueError")
    ELSE IF Strip(category.s) = <<>> THEN Raise("ValueError")
    ELSE Return([date |-> date.dt,
                 category |-> Strip(category.s),
                 amount |-> amount.f,
                 transaction_type |-> transaction_type,
                 description |-> IF description # <<>> THEN Strip(description)
                                 ELSE <<>>])

\* Transaction.__init__ raising ValueError for an argument of the wrong type
InitTypeAsValueError(date, category, amount, transaction_type, description) ==
    IF date.ty # "datetime" THEN Raise("ValueError")
    ELSE IF category.ty # "str" THEN Raise("ValueError")
    ELSE IF amount.ty \notin {"int", "float"} THEN Raise("ValueError")
    ELSE IF FLt(amount.f, Num(0)) THEN Raise("ValueError")
    ELSE IF transaction_type \notin {INCOME, EXPENSE} THEN Raise("ValueError")
    ELSE IF Strip(category.s) = <<>> THEN Raise("ValueError")
    ELSE Return([date |-> date.dt,
                 category |-> Strip(category.s),
                 amount |-> amount.f,
                 transaction_type |-> transaction_type,
                 description |-> IF description # <<>> THEN Strip(description)
                                 ELSE <<>>])

\* Transaction.__init__: the arguments carry their Python type in ty
TransactionInit(date, category, amount, transaction_type, description) ==
    IF date.ty # "datetime" THEN Raise("TypeError")
    ELSE IF category.ty # "str" THEN Raise("TypeError")
    ELSE IF amount.ty \notin {"int", "float"} THEN Raise("TypeError")
    ELSE IF FLt(amount.f, Num(0)) THEN Raise("ValueError")
    ELSE IF transaction_type \notin {INCOME, EXPENSE} THEN Raise("ValueError")
    ELSE IF Strip(category.s) = <<>> THEN Raise("ValueError")
    ELSE Return([date |-> date.dt,
                 category |-> Strip(category.s),
                 amount |-> amount.f,
                 transaction_type |-> transaction_type,
                 description |-> IF description # <<>> THEN Strip(description)
                                 ELSE <<>>])

\* argument wrappers: a datetime, a str, an int or float
PyDate(dt) == [ty |-> "datetime", dt |-> dt]
PyStr(s) == [ty |-> "str", s |-> s]
PyNum(f) == [ty |-> "float", f |-> f]


\* a date as text: fmt is the layout, "Y-m-d" for 2024-01-15, "Y/m/d" for
\* 2024/01/15, "iso" for 2024-01-15T09:30:00, "text" for anything else, "nan"
\* for the float NaN pandas reads from an empty cell (str(nan) = 'nan')
DateText(fmt, y, m, d) == [fmt |-> fmt, y |-> y, m |-> m, d |-> d]

\* datetime.strftime('%Y-%m-%d')
strftime(dt) == DateText("Y-m-d", dt.y, dt.m, dt.d)

\* the values of a record (dict): a str or NaN, a float or a non-numeric str
StrVal(s) == [nan |-> FALSE, s |-> s]
NanVal == [nan |-> TRUE, s |-> <<>>]
FloatVal(f) == [k |-> "float", f |-> f]
TextVal == [k |-> "text", f |-> NaN]

AllKeys == {"date", "category", "amount", "type", "description"}

\* Transaction.to_dict
to_dict(t) ==
    [has |-> AllKeys,
     date |-> strftime(t.date),
     category |-> StrVal(t.category),
     amount |-> FloatVal(t.amount),
     type |-> StrVal(<<t.transaction_type>>),
     description |-> StrVal(t.description)]

\* str(value) of a str or NaN
str(val) == IF val.nan THEN NanStr ELSE val.s

\* the three parsers from_dict tries, in order; each gives the set of datetimes
\* it parses the text to (empty when it raises ValueError)
strptime_dash(dtext) ==
    IF dtext.fmt = "Y-m-d" /\ ValidDate(dtext.y, dtext.m, dtext.d)
    THEN {DT(dtext.y, dtext.m, dtext.d, 0)} ELSE {}

strptime_slash(dtext) ==
    IF dtext.fmt = "Y/m/d" /\ ValidDate(dtext.y, dtext.m, dtext.d)
    THEN {DT(dtext.y, dtext.m, dtext.d, 0)} ELSE {}

\* datetime.fromisoformat(date_str) on the whole text: the time of day of an
\* ISO text, 09:30:00, stays in the result
fromisoformat_whole(dtext) ==
    IF dtext.fmt = "Y-m-d" /\ ValidDate(dtext.y, dtext.m, dtext.d)
    THEN {DT(dtext.y, dtext.m, dtext.d, 0)}
    ELSE IF dtext.fmt = "iso" /\ ValidDate(dtext.y, dtext.m, dtext.d)
    THEN {DT(dtext.y, dtext.m, dtext.d, (9 * 3600) + (30 * 60))}
    ELSE {}

\* datetime.fromisoformat(date_str.split('T')[0])
fromisoformat_date(dtext) ==
    IF dtext.fmt \in {"Y-m-d", "iso"} /\ ValidDate(dtext.y, dtext.m, dtext.d)
    THEN {DT(dtext.y, dtext.m, dtext.d, 0)} ELSE {}

ParseDate(dtext) ==
    IF strptime_dash(dtext) # {} THEN strptime_dash(dtext)
    ELSE IF strptime_slash(dtext) # {} THEN strptime_slash(dtext)
    ELSE fromisoformat_date(dtext)

\* the one-element tuple <<tok>> of a type tag read back as the tag
TypeOf(s) == IF Len(s) = 1 THEN s[1] ELSE "other"

\* Transaction.from_dict
from_dict(data) ==
    IF "date" \notin data.has THEN Raise("KeyError")
    ELSE IF ParseDate(data.date) = {} THEN Raise("ValueError")
    ELSE IF "category" \notin data.has THEN Raise("KeyError")
    ELSE IF "amount" \notin data.has THEN Raise("KeyError")
    ELSE IF data.amount.k = "text" THEN Raise("ValueError")
    ELSE IF "type" \notin data.has THEN Raise("KeyError")
    ELSE LET date == CHOOSE dt \in ParseDate(data.date) : TRUE
             description == IF "description" \in data.has
                            THEN str(data.description) ELSE <<>>
         IN  TransactionInit(PyDate(date), PyStr(str(data.category)),
                             PyNum(data.amount.f), TypeOf(str(data.type)),
                             description)

\* a comparison of Transactions that leaves the description out
TxEqNoDescription(a, b) ==
    /\ a.date = b.date
    /\ a.category = b.category
    /\ FEq(a.amount, b.amount)
    /\ a.transaction_type = b.transaction_type

\* Transaction.__eq__ on two Transactions: the five comparisons
TxEq(a, b) ==
    /\ a.date = b.date
    /\ a.category = b.category
    /\ FEq(a.amount, b.amount)
    /\ a.transaction_type = b.transaction_type
    /\ a.description = b.description

\* a Python object: an instance of Transaction, or of another class (a dict)
\* with the same items
PyObj(cls, obj) == [cls |-> cls, obj |-> obj]

\* Transaction.__eq__(self, other)
eq(self, other) ==
    IF other.cls # "Transaction" THEN FALSE ELSE TxEq(self, other.obj)

\* Transaction.__hash__: the hash of the tuple of the five fields, as that
\* tuple
hash(self) ==
    <<self.date, self.category, self.amount, self.transaction_type,
      self.description>>

(***************************************************************************)
(* The CSV file as pandas writes and reads it (ledger/repository.py)       *)
(*                                                                         *)
(* A row of the file is five text cells.  pd.read_csv turns a cell into a  *)
(* value: the texts of NaTexts (the empty cell among them) become NaN, a    *)
(* numeric amount becomes a float.  DataFrame.to_csv writes NaN as the     *)
(* empty cell.                                                             *)
(***************************************************************************)
NaTexts == {<<>>, <<"N", "A">>, NanStr}

AmountCell(k, v) == [k |-> k, v |-> v]      \* k: "num", "empty" or "text"

ReadStrCell(text) == IF text \in NaTexts THEN NanVal ELSE StrVal(text)
ReadDateCell(dtext) ==
    IF dtext.fmt = "empty" THEN DateText("nan", 0, 0, 0) ELSE dtext
ReadAmountCell(a) ==
    IF a.k = "num" THEN FloatVal(Num(a.v))
    ELSE IF a.k = "empty" THEN FloatVal(NaN)
    ELSE TextVal

WriteStrCell(val) == IF val.nan THEN <<>> ELSE val.s
WriteDateCell(dtext) ==
    IF dtext.fmt = "nan" THEN DateText("empty", 0, 0, 0) ELSE dtext
WriteAmountCell(val) ==
    IF val.k = "text" THEN AmountCell("text", 0)
    ELSE IF val.f.nan THEN AmountCell("empty", 0)
    ELSE AmountCell("num", val.f.v)

\* one row of pd.read_csv(...).iterrows(), as row.to_dict()
ReadRow(r) ==
    [has |-> AllKeys,
     date |-> ReadDateCell(r.date),
     category |-> ReadStrCell(r.category),
     amount |-> ReadAmountCell(r.amount),
     type |-> ReadStrCell(r.type),
     description |-> ReadStrCell(r.description)]

WriteRow(d) ==
    [date |-> WriteDateCell(d.date),
     category |-> WriteStrCell(d.category),
     amount |-> WriteAmountCell(d.amount),
     type |-> WriteStrCell(d.type),
     description |-> WriteStrCell(d.description)]

read_csv(rows) == [i \in 1..Len(rows) |-> ReadRow(rows[i])]
to_csv(df) == [i \in 1..Len(df) |-> WriteRow(df[i])]

\* save_transaction up to the read: the DataFrame read from the file
save_read(rows) == read_csv(rows)

\* a write of the new record alone, without the DataFrame that was read
save_write_new_row_only(df, transaction) == to_csv(<<to_dict(transaction)>>)

\* save_transaction from the concat on: the file written from the DataFrame
\* that was read and the new record
save_write(df, transaction) == to_csv(df \o <<to_dict(transaction)>>)

\* LedgerRepository.save_transaction: the file after the call
save_transaction(rows, transaction) ==
    save_write(save_read(rows), transaction)

\* the loop of get_all_transactions stopping at the first row that fails
RECURSIVE LoadLoopAbort(_, _, _)
LoadLoopAbort(df, i, acc) ==
    IF i > Len(df) THEN acc
    ELSE LET r == from_dict(df[i])
         IN  IF r.exc = "none" THEN LoadLoopAbort(df, i + 1, Append(acc, r.tx))
             ELSE acc

\* the loop of get_all_transactions over df.iterrows()
RECURSIVE LoadLoop(_, _, _)
LoadLoop(df, i, acc) ==
    IF i > Len(df) THEN acc
    ELSE LET r == from_dict(df[i])
         IN  IF r.exc = "none" THEN LoadLoop(df, i + 1, Append(acc, r.tx))
             ELSE LoadLoop(df, i + 1, acc)

\* LedgerRepository.get_all_transactions
get_all_transactions(rows) ==
    LET df == read_csv(rows)
    IN  IF Len(df) = 0 THEN <<>> ELSE LoadLoop(df, 1, <<>>)

\* list.sort(key=lambda x: x.date): a stable sort, as an insertion that puts
\* an element behind the elements whose date is not later
RECURSIVE InsertByDate(_, _)
InsertByDate(sorted, t) ==
    IF sorted = <<>> THEN <<t>>
    ELSE IF DtLe(Head(sorted).date, t.date)
         THEN <<Head(sorted)>> \o InsertByDate(Tail(sorted), t)
         ELSE <<t>> \o sorted

RECURSIVE SortByDate(_)
SortByDate(txs) ==
    IF txs = <<>> THEN <<>>
    ELSE InsertByDate(SortByDate(SubSeq(txs, 1, Len(txs) - 1)), txs[Len(txs)])

\* the test of the list comprehension with the end excluded
InRangeEndExcluded(t, start_date, end_date) ==
    DtLe(start_date, t.date) /\ DtLt(t.date, end_date)

\* start_date <= t.date <= end_date
InRange(t, start_date, end_date) ==
    DtLe(start_date, t.date) /\ DtLe(t.date, end_date)

\* LedgerRepository.get_transactions_by_date_range
get_transactions_by_date_range(rows, start_date, end_date) ==
    LET all_transactions == get_all_transactions(rows)
        filtered == SelectSeq(all_transactions,
                              LAMBDA t : InRange(t, start_date, end_date))
    IN  SortByDate(filtered)

\* a month range that ends on the day before the last day of the month
get_month_range_short(year, month) ==
    <<DT(year, month, 1, 0), DT(year, month, monthrange(year, month) - 1, 0)>>

\* ledger.utils.get_month_range
get_month_range(year, month) ==
    <<DT(year, month, 1, 0), DT(year, month, monthrange(year, month), 0)>>

\* LedgerRepository.get_transactions_by_month
get_transactions_by_month(rows, year, month) ==
    LET range == get_month_range(year, month)
    IN  get_transactions_by_date_range(rows, range[1], range[2])

(***************************************************************************)
(* LedgerService (ledger/services.py)                                      *)
(***************************************************************************)
RECURSIVE BalanceLoopSwapped(_, _, _, _)
BalanceLoopSwapped(txs, i, total_income, total_expense) ==
    IF i > Len(txs) THEN <<total_income, total_expense>>
    ELSE IF txs[i].transaction_type = INCOME
         THEN BalanceLoopSwapped(txs, i + 1, total_income,
                                 FAdd(total_expense, txs[i].amount))
    ELSE IF txs[i].transaction_type = EXPENSE
         THEN BalanceLoopSwapped(txs, i + 1, FAdd(total_income, txs[i].amount),
                                 total_expense)
    ELSE BalanceLoopSwapped(txs, i + 1, total_income, total_expense)

\* a loop that keeps the last amount of each type instead of the running sum
RECURSIVE BalanceLoopLast(_, _, _, _)
BalanceLoopLast(txs, i, total_income, total_expense) ==
    IF i > Len(txs) THEN <<total_income, total_expense>>
    ELSE IF txs[i].transaction_type = INCOME
         THEN BalanceLoopLast(txs, i + 1, txs[i].amount, total_expense)
    ELSE IF txs[i].transaction_type = EXPENSE
         THEN BalanceLoopLast(txs, i + 1, total_income, txs[i].amount)
    ELSE BalanceLoopLast(txs, i + 1, total_income, total_expense)

\* the for loop of calculate_balance
RECURSIVE BalanceLoop(_, _, _, _)
BalanceLoop(txs, i, total_income, total_expense) ==
    IF i > Len(txs) THEN <<total_income, total_expense>>
    ELSE IF txs[i].transaction_type = INCOME
         THEN BalanceLoop(txs, i + 1, FAdd(total_income, txs[i].amount),
                          total_expense)
    ELSE IF txs[i].transaction_type = EXPENSE
         THEN BalanceLoop(txs, i + 1, total_income,
                          FAdd(total_expense, txs[i].amount))
    ELSE BalanceLoop(txs, i + 1, total_income, total_expense)

\* a balance that adds the expense to the income
calculate_balance_added(txs) ==
    LET totals == BalanceLoop(txs, 1, Num(0), Num(0))
    IN  [income |-> totals[1], expense |-> totals[2],
         balance |-> FAdd(totals[1], totals[2])]

\* LedgerService.calculate_balance
calculate_balance(txs) ==
    LET totals == BalanceLoop(txs, 1, Num(0), Num(0))
    IN  [income |-> totals[1], expense |-> totals[2],
         balance |-> FSub(totals[1], totals[2])]

\* Transaction.is_income
is_income(transaction) == transaction.transaction_type = INCOME

\* a signed amount that keeps the sign of the amount for every type
get_signed_amount_unsigned(transaction) == transaction.amount

\* Transaction.get_signed_amount
get_signed_amount(transaction) ==
    IF is_income(transaction) THEN transaction.amount
    ELSE FNeg(transaction.amount)

\* an update of the dict that stores the amount instead of adding it
RECURSIVE DictAddOverwrite(_, _, _)
DictAddOverwrite(items, key, amount) ==
    IF items = <<>> THEN <<<<key, amount>>>>
    ELSE IF Head(items)[1] = key
         THEN <<<<key, amount>>>> \o Tail(items)
         ELSE <<Head(items)>> \o DictAddOverwrite(Tail(items), key, amount)

\* a dict of category -> amount is the tuple of its <<key, value>> items in
\* insertion order
RECURSIVE DictAdd(_, _, _)
DictAdd(items, key, amount) ==
    IF items = <<>> THEN <<<<key, amount>>>>
    ELSE IF Head(items)[1] = key
         THEN <<<<key, FAdd(Head(items)[2], amount)>>>> \o Tail(items)
         ELSE <<Head(items)>> \o DictAdd(Tail(items), key, amount)

\* the for loop of get_category_statistics; no_filter is "transaction_type is
\* None" (or empty)
RECURSIVE StatsLoop(_, _, _, _)
StatsLoop(txs, i, transaction_type, category_stats) ==
    IF i > Len(txs) THEN category_stats
    ELSE IF transaction_type # "" /\ txs[i].transaction_type # transaction_type
         THEN StatsLoop(txs, i + 1, transaction_type, category_stats)
         ELSE StatsLoop(txs, i + 1, transaction_type,
                        DictAdd(category_stats, txs[i].category, txs[i].amount))

\* an insertion that puts an item in front of the items whose value is equal
RECURSIVE InsertByValueUnstable(_, _)
InsertByValueUnstable(sorted, item) ==
    IF sorted = <<>> THEN <<item>>
    ELSE IF FGt(Head(sorted)[2], item[2])
         THEN <<Head(sorted)>> \o InsertByValueUnstable(Tail(sorted), item)
         ELSE <<item>> \o sorted

\* sorted(items, key=lambda x: x[1], reverse=True): stable, so an item goes
\* behind the items whose value is not smaller
RECURSIVE InsertByValueDesc(_, _)
InsertByValueDesc(sorted, item) ==
    IF sorted = <<>> THEN <<item>>
    ELSE IF ~FLt(Head(sorted)[2], item[2])
         THEN <<Head(sorted)>> \o InsertByValueDesc(Tail(sorted), item)
         ELSE <<item>> \o sorted

RECURSIVE SortByValueDesc(_)
SortByValueDesc(items) ==
    IF items = <<>> THEN <<>>
    ELSE InsertByValueDesc(SortByValueDesc(SubSeq(items, 1, Len(items) - 1)),
                           items[Len(items)])

\* LedgerService.get_category_statistics; transaction_type "" is None
get_category_statistics(txs, transaction_type) ==
    SortByValueDesc(StatsLoop(txs, 1, transaction_type, <<>>))

\* a daily query whose range starts at the time of day of the argument
get_daily_from_time_given(rows, date) ==
    get_transactions_by_date_range(rows, date,
                                   DT(date.y, date.m, date.d, EndOfDay))

\* LedgerService.get_daily_transactions
get_daily_transactions(rows, date) ==
    get_transactions_by_date_range(rows, DT(date.y, date.m, date.d, 0),
                                   DT(date.y, date.m, date.d, EndOfDay))

\* a monthly summary that is computed from all the stored transactions
get_monthly_summary_all(rows, year, month) ==
    LET transactions == get_all_transactions(rows)
        balance_info == calculate_balance(transactions)
    IN  [total_income |-> balance_info.income,
         total_expense |-> balance_info.expense,
         balance |-> balance_info.balance,
         income_by_category |-> get_category_statistics(transactions, INCOME),
         expense_by_category |-> get_category_statistics(transactions, EXPENSE),
         transaction_count |-> Len(transactions)]

\* LedgerService.get_monthly_summary
get_monthly_summary(rows, year, month) ==
    LET transactions == get_transactions_by_month(rows, year, month)
        balance_info == calculate_balance(transactions)
    IN  [total_income |-> balance_info.income,
         total_expense |-> balance_info.expense,
         balance |-> balance_info.balance,
         income_by_category |-> get_category_statistics(transactions, INCOME),
         expense_by_category |-> get_category_statistics(transactions, EXPENSE),
         transaction_count |-> Len(transactions)]

STOCK_BUY == <<"buy">>       \* the category '주식매수', one glyph
STOCK_SELL == <<"sell">>     \* the category '주식매도', one glyph

\* an event whose colour looks at the type before the category
CalendarEventTypeFirst(transaction) ==
    LET is_stock == transaction.category \in {STOCK_BUY, STOCK_SELL}
        title == IF is_stock
                 THEN (IF transaction.description # <<>>
                       THEN <<"text", transaction.description>>
                       ELSE <<"text", transaction.category>>)
                 ELSE <<"category_amount", transaction.category,
                        transaction.amount>>
        color == IF transaction.transaction_type = INCOME THEN "#51CF66"
                 ELSE IF transaction.category = STOCK_BUY THEN "#FF6B6B"
                 ELSE IF transaction.category = STOCK_SELL THEN "#4ECDC4"
                 ELSE "#FFA94D"
    IN  [title |-> title, start |-> strftime(transaction.date),
         backgroundColor |-> color, borderColor |-> color,
         textColor |-> "#FFFFFF"]

\* the title, colour and date computed from one transaction
CalendarEvent(transaction) ==
    LET is_stock == transaction.category \in {STOCK_BUY, STOCK_SELL}
        title == IF is_stock
                 THEN (IF transaction.description # <<>>
                       THEN <<"text", transaction.description>>
                       ELSE <<"text", transaction.category>>)
                 ELSE <<"category_amount", transaction.category,
                        transaction.amount>>
        color == IF transaction.category = STOCK_BUY THEN "#FF6B6B"
                 ELSE IF transaction.category = STOCK_SELL THEN "#4ECDC4"
                 ELSE IF transaction.transaction_type = INCOME THEN "#51CF66"
                 ELSE "#FFA94D"
    IN  [title |-> title, start |-> strftime(transaction.date),
         backgroundColor |-> color, borderColor |-> color,
         textColor |-> "#FFFFFF"]

\* LedgerService.get_calendar_events, the definition in force (the second one
\* of the class body).  Only "is_stock = ..." is inside the for loop: the rest
\* of the body runs once, after the loop, on the loop variable's last value,
\* and is_stock is unbound when the list is empty.
get_calendar_events(txs) ==
    IF Len(txs) = 0 THEN [exc |-> "UnboundLocalError", events |-> <<>>]
    ELSE [exc |-> "none", events |-> <<CalendarEvent(txs[Len(txs)])>>]

\* LedgerService.get_calendar_events, the first definition of the class body,
\* replaced by the second one when the class is created
get_calendar_events_first(txs) ==
    [i \in 1..Len(txs) |->
        LET t == txs[i]
            color == IF \E k \in 1..Len(t.category) : t.category[k] = "invest"
                     THEN "#28A745"
                     ELSE IF t.transaction_type = INCOME THEN "#1C83E1"
                     ELSE "#FF4B4B"
        IN  [title |-> <<"category_amount", t.category, t.amount>>,
             start |-> strftime(t.date),
             backgroundColor |-> color, borderColor |-> color,
             allDay |-> TRUE,
             extendedProps |-> [description |-> t.description,
                                type |-> t.transaction_type]]]

(***************************************************************************)
(* Inputs                                                                  *)
(***************************************************************************)

DateInputs ==
    {DT(2024, 1, 15, 0), DT(2024, 1, 31, 0), DT(2024, 1, 31, Noon),
     DT(2024, 2, 1, 0)}
CategoryInputs == {<<>>, <<" ">>, <<"a">>, <<" ", "b">>, <<"b", " ">>}
AmountInputs == {-5, -1, 0, 1, 5}
TypeInputs == {INCOME, EXPENSE, "gift"}
DescriptionInputs == {<<>>, <<"x">>, <<" ", "x", " ">>, <<" ">>}

\* a Transaction as a caller builds it
Tx(date, category, amount, transaction_type, description) ==
    TransactionInit(PyDate(date), PyStr(category), PyNum(Num(amount)),
                    transaction_type, description).tx

\* the transactions the aggregation functions are given
ListTx ==
    {Tx(DT(2024, 1, 15, 0), <<"a">>, 5, EXPENSE, <<"x">>),
     Tx(DT(2024, 1, 31, Noon), <<"b">>, 5, EXPENSE, <<>>),
     Tx(DT(2024, 1, 31, 0), <<"b">>, 1, INCOME, <<"x">>),
     Tx(DT(2024, 2, 1, 0), <<"a">>, 1, INCOME, <<>>),
     Tx(DT(2024, 1, 15, 0), STOCK_BUY, 5, EXPENSE, <<"x">>),
     Tx(DT(2024, 2, 1, 0), STOCK_SELL, 0, INCOME, <<>>)}

\* the transactions that are saved
SaveTx ==
    {Tx(DT(2024, 1, 15, 0), <<"a">>, 5, EXPENSE, <<"x">>),
     Tx(DT(2024, 1, 31, 0), <<"b">>, 1, INCOME, <<>>),
     Tx(DT(2024, 1, 31, Noon), <<"a">>, 1, EXPENSE, <<"x">>),
     Tx(DT(2024, 2, 1, 0), <<"a">>, 5, INCOME, <<"x">>)}

\* the transactions that replace a stored one
EditTx ==
    {Tx(DT(2024, 1, 15, 0), <<"a">>, 5, EXPENSE, <<"x">>),
     Tx(DT(2024, 1, 31, 0), <<"b">>, 1, INCOME, <<>>),
     Tx(DT(2024, 1, 31, Noon), <<"a">>, 1, EXPENSE, <<"x">>)}

Row(date, category, amount, type, description) ==
    [date |-> date, category |-> category, amount |-> amount, type |-> type,
     description |-> description]

\* rows a file may hold before the repository is built on it
RawRows ==
    {Row(DateText("Y/m/d", 2024, 2, 29), <<"a">>, AmountCell("num", 5),
         <<INCOME>>, <<"x">>),
     Row(DateText("iso", 2024, 1, 31), <<"b">>, AmountCell("num", 1),
         <<EXPENSE>>, <<"N", "A">>),
     Row(DateText("text", 0, 0, 0), <<"a">>, AmountCell("num", 5),
         <<EXPENSE>>, <<"x">>),
     Row(DateText("Y-m-d", 2024, 2, 30), <<"a">>, AmountCell("num", 5),
         <<EXPENSE>>, <<"x">>),
     Row(DateText("Y-m-d", 2024, 1, 15), <<"a">>, AmountCell("empty", 0),
         <<EXPENSE>>, <<"x">>),
     Row(DateText("Y-m-d", 2024, 1, 15), <<"a">>, AmountCell("num", -5),
         <<EXPENSE>>, <<"x">>),
     Row(DateText("Y-m-d", 2024, 1, 15), <<"a">>, AmountCell("num", 5),
         <<"gift">>, <<"x">>)}

RangeStarts == {DT(2024, 1, 15, 0), DT(2024, 1, 31, 0)}
RangeEnds == {DT(2024, 1, 31, 0), DT(2024, 1, 31, Noon), DT(2024, 2, 1, 0)}
MonthInputs == {<<2023, 12>>, <<2024, 1>>, <<2024, 2>>}

RECURSIVE SeqsUpTo(_, _)
SeqsUpTo(S, n) ==
    IF n = 0 THEN {<<>>}
    ELSE LET shorter == SeqsUpTo(S, n - 1)
         IN  shorter \cup {Append(q, x) : q \in {r \in shorter : Len(r) = n - 1},
                                          x \in S}

(***************************************************************************)
(* Spec: the repository on its file, and the queries                       *)
(***************************************************************************)
\* the program starts on the file it finds: none, or one with rows in it
Init ==
    /\ \/ csv_exists = FALSE /\ csv_rows = <<>>
       \/ csv_exists = TRUE /\ csv_rows \in SeqsUpTo(RawRows, MaxPre)
    /\ op = "start"
    /\ args = <<>>
    /\ ret = <<>>
    /\ log = [clean |-> csv_rows = <<>>, appended |-> <<>>, wiped |-> FALSE,
              held |-> FALSE]
    /\ proc = <<>>

\* a LedgerRepository has been constructed
Constructed == op # "start"

\* an _ensure_file_exists that writes the header-only file whether or not
\* the file is there
ensure_file_always_creates(exists, rows) == <<>>

\* LedgerRepository._ensure_file_exists: the file after the call
ensure_file_exists(exists, rows) == IF ~exists THEN <<>> ELSE rows

\* LedgerRepository.__init__ (app.py builds the repository on every run)
LedgerRepositoryInit ==
    /\ csv_rows' = ensure_file_exists(csv_exists, csv_rows)
    /\ csv_exists' = TRUE
    /\ op' = "LedgerRepository"
    /\ args' = <<csv_exists, csv_rows>>
    /\ ret' = <<>>
    /\ UNCHANGED <<log, proc>>

SaveTransaction ==
    \E transaction \in SaveTx :
        /\ Constructed
        /\ Len(csv_rows) < MaxRows
        /\ csv_rows' = save_transaction(csv_rows, transaction)
        /\ UNCHANGED <<csv_exists, proc>>
        /\ op' = "save_transaction"
        /\ args' = <<transaction>>
        /\ ret' = <<>>
        /\ log' = [log EXCEPT !.appended = Append(@, transaction)]

\* a query that writes the list it loaded back, sorted by date
file_after_query_sorted(rows) ==
    LET sorted == SortByDate(get_all_transactions(rows))
    IN  to_csv([i \in 1..Len(sorted) |-> to_dict(sorted[i])])

\* the file after a query: get_all_transactions opens it with pd.read_csv
\* and no statement of the queries writes it
file_after_query(rows) == rows

GetAllTransactions ==
    /\ Constructed
    /\ op' = "get_all_transactions"
    /\ args' = <<>>
    /\ ret' = get_all_transactions(csv_rows)
    /\ csv_rows' = file_after_query(csv_rows)
    /\ UNCHANGED <<csv_exists, log, proc>>

GetTransactionsByDateRange ==
    \E start_date \in RangeStarts, end_date \in RangeEnds :
        /\ Constructed
        /\ op' = "get_transactions_by_date_range"
        /\ args' = <<start_date, end_date>>
        /\ ret' = get_transactions_by_date_range(csv_rows, start_date, end_date)
        /\ csv_rows' = file_after_query(csv_rows)
        /\ UNCHANGED <<csv_exists, log, proc>>

GetTransactionsByMonth ==
    \E ym \in MonthInputs :
        /\ Constructed
        /\ op' = "get_transactions_by_month"
        /\ args' = ym
        /\ ret' = [range |-> get_month_range(ym[1], ym[2]),
                   transactions |-> get_transactions_by_month(csv_rows, ym[1], ym[2])]
        /\ csv_rows' = file_after_query(csv_rows)
        /\ UNCHANGED <<csv_exists, log, proc>>

\* the days asked for, at some time of the day
DailyInputs ==
    {DT(2024, 1, 15, 0), DT(2024, 1, 31, Noon), DT(2024, 2, 1, EndOfDay)}

GetDailyTransactions ==
    \E date \in DailyInputs :
        /\ Constructed
        /\ op' = "get_daily_transactions"
        /\ args' = <<date>>
        /\ ret' = get_daily_transactions(csv_rows, date)
        /\ csv_rows' = file_after_query(csv_rows)
        /\ UNCHANGED <<csv_exists, log, proc>>

GetMonthlySummary ==
    \E ym \in MonthInputs :
        /\ Constructed
        /\ op' = "get_monthly_summary"
        /\ args' = ym
        /\ ret' = get_monthly_summary(csv_rows, ym[1], ym[2])
        /\ csv_rows' = file_after_query(csv_rows)
        /\ UNCHANGED <<csv_exists, log, proc>>

\* LedgerRepository._save_all_to_csv(transactions): the file rewritten from
\* the records of the given transactions, in their order
save_all_to_csv(transactions) ==
    to_csv([i \in 1..Len(transactions) |-> to_dict(transactions[i])])

\* an update that puts the transaction in front of the entry instead of in
\* its place
update_transaction_insert(rows, index, transaction) ==
    LET transactions == get_all_transactions(rows)
        updated == SubSeq(transactions, 1, index) \o <<transaction>>
                   \o SubSeq(transactions, index + 1, Len(transactions))
    IN  [before |-> transactions, saved |-> updated,
         writes |-> <<save_all_to_csv(updated)>>]

\* LedgerService.update_transaction(index, transaction): the list read from
\* the repository, the list after transactions[index] = transaction, and
\* the files written, in order
update_transaction(rows, index, transaction) ==
    LET transactions == get_all_transactions(rows)
        updated == [transactions EXCEPT ![index + 1] = transaction]
    IN  [before |-> transactions, saved |-> updated,
         writes |-> <<save_all_to_csv(updated)>>]

\* a deletion that drops the last entry whatever the index
delete_transaction_last(rows, index) ==
    LET transactions == get_all_transactions(rows)
        remaining == SubSeq(transactions, 1, Len(transactions) - 1)
    IN  [before |-> transactions, saved |-> remaining,
         writes |-> <<save_all_to_csv(remaining)>>]

\* LedgerService.delete_transaction(index): the list read from the
\* repository, the list after transactions.pop(index), and the files
\* written, in order
delete_transaction(rows, index) ==
    LET transactions == get_all_transactions(rows)
        remaining == SubSeq(transactions, 1, index)
                     \o SubSeq(transactions, index + 2, Len(transactions))
    IN  [before |-> transactions, saved |-> remaining,
         writes |-> <<save_all_to_csv(remaining)>>]

UpdateTransaction ==
    \E index \in 0..(MaxRows - 1), transaction \in EditTx :
        /\ Constructed
        /\ index < Len(get_all_transactions(csv_rows))
        /\ LET done == update_transaction(csv_rows, index, transaction)
           IN  /\ csv_rows' = done.writes[Len(done.writes)]
               /\ ret' = done
        /\ op' = "update_transaction"
        /\ args' = <<index, transaction>>
        /\ log' = [clean |-> FALSE, appended |-> <<>>, wiped |-> FALSE,
                   held |-> FALSE]
        /\ UNCHANGED <<csv_exists, proc>>

DeleteTransaction ==
    \E index \in 0..(MaxRows - 1) :
        /\ Constructed
        /\ index < Len(get_all_transactions(csv_rows))
        /\ LET done == delete_transaction(csv_rows, index)
           IN  /\ csv_rows' = done.writes[Len(done.writes)]
               /\ ret' = done
        /\ op' = "delete_transaction"
        /\ args' = <<index>>
        /\ log' = [clean |-> FALSE, appended |-> <<>>, wiped |-> FALSE,
                   held |-> FALSE]
        /\ UNCHANGED <<csv_exists, proc>>

\* delete_all_transactions leaving the rows in the file
delete_all_keep_rows(rows) == rows

\* LedgerRepository.delete_all_transactions: the file after the call
delete_all_transactions(rows) == <<>>

DeleteAllTransactions ==
    /\ Constructed
    /\ csv_rows' = delete_all_transactions(csv_rows)
    /\ op' = "delete_all_transactions"
    /\ args' = <<>>
    /\ ret' = <<>>
    /\ log' = [clean |-> TRUE, appended |-> <<>>, wiped |-> TRUE,
               held |-> csv_rows # <<>>]
    /\ UNCHANGED <<csv_exists, proc>>

Next ==
    \/ LedgerRepositoryInit
    \/ SaveTransaction
    \/ GetAllTransactions
    \/ GetTransactionsByDateRange
    \/ GetTransactionsByMonth
    \/ GetMonthlySummary
    \/ DeleteAllTransactions

Spec == Init /\ [][Next]_vars

(***************************************************************************)
(* SpecEdit: the update and the deletion by index of LedgerService, on a   *)
(* store that a repository has been built on                               *)
(***************************************************************************)
\* rows a stored file may hold: those written for the transactions of
\* EditTx, and one whose date does not parse
EditRows ==
    {WriteRow(to_dict(t)) : t \in EditTx}
        \cup {Row(DateText("text", 0, 0, 0), <<"a">>, AmountCell("num", 5),
                  <<EXPENSE>>, <<"x">>)}

InitEdit ==
    /\ csv_exists = TRUE
    /\ csv_rows \in SeqsUpTo(EditRows, MaxRows)
    /\ op = "LedgerRepository"
    /\ args = <<>>
    /\ ret = <<>>
    /\ log = [clean |-> csv_rows = <<>>, appended |-> <<>>, wiped |-> FALSE,
              held |-> FALSE]
    /\ proc = <<>>

NextEdit ==
    \/ UpdateTransaction
    \/ DeleteTransaction
    \/ GetAllTransactions

SpecEdit == InitEdit /\ [][NextEdit]_vars

(***************************************************************************)
(* SpecRead: the read-only operations on a store.  The service functions   *)
(* are given the list that get_all_transactions returns, as app.py does.   *)
(***************************************************************************)
ReadRows == {WriteRow(to_dict(t)) : t \in SaveTx}

InitRead ==
    /\ csv_exists = TRUE
    /\ csv_rows \in SeqsUpTo(ReadRows, MaxRows)
    /\ op = "LedgerRepository"
    /\ args = <<>>
    /\ ret = <<>>
    /\ log = [clean |-> csv_rows = <<>>, appended |-> <<>>, wiped |-> FALSE,
              held |-> FALSE]
    /\ proc = <<>>

CalculateBalanceOfStore ==
    LET transactions == get_all_transactions(csv_rows)
    IN  /\ op' = "calculate_balance(get_all_transactions())"
        /\ args' = <<transactions>>
        /\ ret' = calculate_balance(transactions)
        /\ csv_rows' = file_after_query(csv_rows)
        /\ UNCHANGED <<csv_exists, log, proc>>

GetCategoryStatisticsOfStore ==
    LET transactions == get_all_transactions(csv_rows)
    IN  \E transaction_type \in {"", INCOME, EXPENSE} :
            /\ op' = "get_category_statistics(get_all_transactions())"
            /\ args' = <<transactions, transaction_type>>
            /\ ret' = get_category_statistics(transactions, transaction_type)
            /\ csv_rows' = file_after_query(csv_rows)
            /\ UNCHANGED <<csv_exists, log, proc>>

GetCalendarEventsOfStore ==
    LET transactions == get_all_transactions(csv_rows)
    IN  /\ op' = "get_calendar_events(get_all_transactions())"
        /\ args' = <<transactions>>
        /\ ret' = get_calendar_events(transactions)
        /\ csv_rows' = file_after_query(csv_rows)
        /\ UNCHANGED <<csv_exists, log, proc>>

NextRead ==
    \/ GetAllTransactions
    \/ GetTransactionsByDateRange
    \/ GetTransactionsByMonth
    \/ GetDailyTransactions
    \/ GetMonthlySummary
    \/ CalculateBalanceOfStore
    \/ GetCategoryStatisticsOfStore
    \/ GetCalendarEventsOfStore

SpecRead == InitRead /\ [][NextRead]_vars

(***************************************************************************)
(* SpecUI: the save button of the input menu (app.py) on a store that      *)
(* starts empty                                                            *)
(***************************************************************************)
\* datetime.combine(transaction_date, datetime.min.time())
combine_min(transaction_date) ==
    DT(transaction_date[1], transaction_date[2], transaction_date[3], 0)

\* a handler that turns away negative amounts only
save_button_allows_zero(rows, form) ==
    IF form.amount < 0
    THEN [message |-> "error", transaction |-> NoTx, rows |-> rows]
    ELSE LET made == TransactionInit(PyDate(combine_min(form.transaction_date)),
                                     PyStr(form.category),
                                     PyNum(Num(form.amount)),
                                     form.transaction_type, form.description)
         IN  IF made.exc = "none"
             THEN [message |-> "success", transaction |-> made.tx,
                   rows |-> save_transaction(rows, made.tx)]
             ELSE [message |-> "error", transaction |-> NoTx, rows |-> rows]

\* the body of "if st.button(save)": the message shown, the Transaction
\* constructed and the file after the click
save_button(rows, form) ==
    IF form.amount <= 0
    THEN [message |-> "error", transaction |-> NoTx, rows |-> rows]
    ELSE LET made == TransactionInit(PyDate(combine_min(form.transaction_date)),
                                     PyStr(form.category),
                                     PyNum(Num(form.amount)),
                                     form.transaction_type, form.description)
         IN  IF made.exc = "none"
             THEN [message |-> "success", transaction |-> made.tx,
                   rows |-> save_transaction(rows, made.tx)]
             ELSE [message |-> "error", transaction |-> NoTx, rows |-> rows]

\* what the widgets of the form can hold: number_input has min_value=0
UIAmounts == {0, 1, 5}
UITypes == {INCOME, EXPENSE}
UIDates == {<<2024, 1, 15>>}
UICategories == {<<"a">>}
UIDescriptions == {<<>>}

InitUI ==
    /\ csv_exists = TRUE
    /\ csv_rows = <<>>
    /\ op = "LedgerRepository"
    /\ args = <<>>
    /\ ret = <<>>
    /\ log = [clean |-> TRUE, appended |-> <<>>, wiped |-> FALSE,
              held |-> FALSE]
    /\ proc = <<>>

\* the values of the widgets when the button is clicked
Forms ==
    [transaction_date : UIDates, transaction_type : UITypes,
     category : UICategories, amount : UIAmounts,
     description : UIDescriptions]

SaveButton ==
    \E form \in Forms :
        /\ Len(csv_rows) < MaxRows
        /\ LET done == save_button(csv_rows, form)
           IN  /\ csv_rows' = done.rows
               /\ ret' = [message |-> done.message,
                          transaction |-> done.transaction]
               /\ log' = IF done.message = "success"
                         THEN [log EXCEPT
                                   !.appended = Append(@, done.transaction)]
                         ELSE log
        /\ op' = "save_button"
        /\ args' = form
        /\ UNCHANGED <<csv_exists, proc>>

NextUI ==
    \/ SaveButton
    \/ GetAllTransactions

SpecUI == InitUI /\ [][NextUI]_vars

(***************************************************************************)
(* SpecConc: two callers of save_transaction on one file, each running its *)
(* read of the file and its write of the file as separate steps            *)
(***************************************************************************)
Writers == {1, 2}

InitConc ==
    /\ csv_exists = TRUE
    /\ csv_rows \in SeqsUpTo(RawRows, MaxPre)
    /\ op = "LedgerRepository"
    /\ args = <<>>
    /\ ret = <<>>
    /\ log = [base |-> csv_rows, events |-> <<>>]
    /\ proc = [p \in Writers |-> [pc |-> "idle", df |-> <<>>,
                                  transaction |-> NoTx]]

\* caller p enters save_transaction(transaction) and reads the file
SaveRead(p) ==
    \E transaction \in SaveTx :
        /\ proc[p].pc = "idle"
        /\ proc' = [proc EXCEPT ![p] = [pc |-> "read",
                                        df |-> save_read(csv_rows),
                                        transaction |-> transaction]]
        /\ op' = "read_csv"
        /\ args' = <<p>>
        /\ log' = [log EXCEPT !.events = Append(@, <<p, "read">>)]
        /\ UNCHANGED <<csv_exists, csv_rows, ret>>

\* caller p writes the file from what it has read and returns
SaveWrite(p) ==
    /\ proc[p].pc = "read"
    /\ csv_rows' = save_write(proc[p].df, proc[p].transaction)
    /\ proc' = [proc EXCEPT ![p].pc = "done"]
    /\ op' = "to_csv"
    /\ args' = <<p>>
    /\ log' = [log EXCEPT !.events = Append(@, <<p, "write">>)]
    /\ UNCHANGED <<csv_exists, ret>>

NextConc ==
    \/ \E p \in Writers : SaveRead(p)
    \/ \E p \in Writers : SaveWrite(p)

SpecConc == InitConc /\ [][NextConc]_vars

(***************************************************************************)
(* SpecPure: the pure functions applied to the inputs drawn in InitPure    *)
(***************************************************************************)
CtorInputs ==
    [kind : {"ctor"}, date : DateInputs, category : CategoryInputs,
     amount : AmountInputs, transaction_type : TypeInputs,
     description : DescriptionInputs]

ListInputs == [kind : {"list"}, transactions : SeqsUpTo(ListTx, MaxSeq)]

\* constructor arguments of the right and of the wrong Python type: a str for
\* the date or for the amount
TypedInputs ==
    [kind : {"typed"},
     date : {PyDate(DT(2024, 1, 15, 0)), [ty |-> "str", dt |-> DT(0, 0, 0, 0)]},
     category : {<<"a">>, <<" ">>},
     amount : {PyNum(Num(5)), PyNum(Num(-1)), [ty |-> "str", f |-> NaN]},
     transaction_type : {INCOME, "gift"}]

\* the calendar days of the records, 2023-02-29 not being one
DayInputs == {<<2024, 1, 31>>, <<2024, 2, 29>>, <<2023, 2, 29>>}

\* records (dicts) for from_dict: with all the keys or with one missing, the
\* date in each of the layouts
DictInputs ==
    [kind : {"dict"},
     data : [has : {AllKeys} \cup {AllKeys \ {k} : k \in AllKeys},
             date : {DateText(fmt, day[1], day[2], day[3]) :
                        fmt \in {"Y-m-d", "Y/m/d", "iso", "text"},
                        day \in DayInputs},
             category : {StrVal(<<"a">>), StrVal(<<" ">>)},
             amount : {FloatVal(Num(5)), FloatVal(Num(-1)), TextVal},
             type : {StrVal(<<INCOME>>), StrVal(<<"gift">>)},
             description : {StrVal(<<"x">>), NanVal}]]

\* Transactions that differ from the first one in one field each, and in
\* the time of day
EqTx ==
    {Tx(DT(2024, 1, 15, 0), <<"a">>, 5, EXPENSE, <<"x">>),
     Tx(DT(2024, 1, 15, Noon), <<"a">>, 5, EXPENSE, <<"x">>),
     Tx(DT(2024, 1, 31, 0), <<"a">>, 5, EXPENSE, <<"x">>),
     Tx(DT(2024, 1, 15, 0), <<"b">>, 5, EXPENSE, <<"x">>),
     Tx(DT(2024, 1, 15, 0), <<"a">>, 1, EXPENSE, <<"x">>),
     Tx(DT(2024, 1, 15, 0), <<"a">>, 5, INCOME, <<"x">>),
     Tx(DT(2024, 1, 15, 0), <<"a">>, 5, EXPENSE, <<>>)}

\* three Transactions to compare
EqInputs == [kind : {"eq"}, a : EqTx, b : EqTx, c : EqTx]

InitPure ==
    /\ \/ args \in CtorInputs
       \/ args \in EqInputs
       \/ args \in ListInputs
       \/ args \in TypedInputs
       \/ args \in DictInputs
    /\ csv_exists = TRUE
    /\ csv_rows = <<>>
    /\ op = "input"
    /\ ret = <<>>
    /\ log = [clean |-> TRUE, appended |-> <<>>, wiped |-> FALSE,
              held |-> FALSE]
    /\ proc = <<>>

Construct ==
    /\ args.kind = "ctor"
    /\ op' = "Transaction"
    /\ ret' = TransactionInit(PyDate(args.date), PyStr(args.category),
                              PyNum(Num(args.amount)), args.transaction_type,
                              args.description)
    /\ UNCHANGED <<csv_exists, csv_rows, args, log, proc>>

\* Transaction(...) on arguments of any type
ConstructTyped ==
    /\ args.kind = "typed"
    /\ op' = "Transaction(typed)"
    /\ ret' = TransactionInit(args.date, PyStr(args.category), args.amount,
                              args.transaction_type, <<>>)
    /\ UNCHANGED <<csv_exists, csv_rows, args, log, proc>>

FromDict ==
    /\ args.kind = "dict"
    /\ op' = "from_dict"
    /\ ret' = from_dict(args.data)
    /\ UNCHANGED <<csv_exists, csv_rows, args, log, proc>>

\* a == b and the other comparisons of three Transactions, a compared with a
\* dict of its items, and the hashes
CompareTransactions ==
    /\ args.kind = "eq"
    /\ op' = "__eq__"
    /\ ret' = [aa |-> eq(args.a, PyObj("Transaction", args.a)),
               ab |-> eq(args.a, PyObj("Transaction", args.b)),
               ba |-> eq(args.b, PyObj("Transaction", args.a)),
               bc |-> eq(args.b, PyObj("Transaction", args.c)),
               ac |-> eq(args.a, PyObj("Transaction", args.c)),
               a_dict |-> eq(args.a, PyObj("dict", args.a)),
               hash_a |-> hash(args.a),
               hash_b |-> hash(args.b)]
    /\ UNCHANGED <<csv_exists, csv_rows, args, log, proc>>

RoundTrip ==
    /\ args.kind = "ctor"
    /\ LET made == TransactionInit(PyDate(args.date), PyStr(args.category),
                                   PyNum(Num(args.amount)), args.transaction_type,
                                   args.description)
       IN  /\ made.exc = "none"
           /\ ret' = [t |-> made.tx, back |-> from_dict(to_dict(made.tx))]
    /\ op' = "from_dict(to_dict)"
    /\ UNCHANGED <<csv_exists, csv_rows, args, log, proc>>

GetSignedAmount ==
    /\ args.kind = "ctor"
    /\ LET made == TransactionInit(PyDate(args.date), PyStr(args.category),
                                   PyNum(Num(args.amount)), args.transaction_type,
                                   args.description)
       IN  /\ made.exc = "none"
           /\ ret' = [t |-> made.tx, signed |-> get_signed_amount(made.tx)]
    /\ op' = "get_signed_amount"
    /\ UNCHANGED <<csv_exists, csv_rows, args, log, proc>>

CalculateBalance ==
    /\ args.kind = "list"
    /\ op' = "calculate_balance"
    /\ ret' = calculate_balance(args.transactions)
    /\ UNCHANGED <<csv_exists, csv_rows, args, log, proc>>

\* calculate_balance on a list, on a prefix of it and on the rest of it
CalculateBalanceOfParts ==
    /\ args.kind = "list"
    /\ \E k \in 0..Len(args.transactions) :
           LET A == SubSeq(args.transactions, 1, k)
               B == SubSeq(args.transactions, k + 1, Len(args.transactions))
           IN  ret' = [A |-> A, B |-> B,
                       whole |-> calculate_balance(A \o B),
                       left |-> calculate_balance(A),
                       right |-> calculate_balance(B)]
    /\ op' = "calculate_balance(A ++ B)"
    /\ UNCHANGED <<csv_exists, csv_rows, args, log, proc>>

GetCategoryStatistics ==
    /\ args.kind = "list"
    /\ \E transaction_type \in {"", INCOME, EXPENSE} :
           ret' = [transaction_type |-> transaction_type,
                   stats |-> get_category_statistics(args.transactions,
                                                     transaction_type)]
    /\ op' = "get_category_statistics"
    /\ UNCHANGED <<csv_exists, csv_rows, args, log, proc>>

GetCalendarEvents ==
    /\ args.kind = "list"
    /\ op' = "get_calendar_events"
    /\ ret' = get_calendar_events(args.transactions)
    /\ UNCHANGED <<csv_exists, csv_rows, args, log, proc>>

NextPure ==
    \/ Construct
    \/ ConstructTyped
    \/ FromDict
    \/ CompareTransactions
    \/ RoundTrip
    \/ GetSignedAmount
    \/ CalculateBalance
    \/ CalculateBalanceOfParts
    \/ GetCategoryStatistics
    \/ GetCalendarEvents

SpecPure == InitPure /\ [][NextPure]_vars

(***************************************************************************)
(* C1: for a datetime, a str category and a numeric amount, construction   *)
(* succeeds exactly when amount >= 0, the type is one of the two tags and  *)
(* the category is non-empty after trimming; amount 0 is accepted and a    *)
(* negative amount raises ValueError and yields no Transaction.            *)
(***************************************************************************)
C1_ConstructionIff ==
    op = "Transaction" =>
        /\ (ret.exc = "none") <=>
               (/\ args.amount >= 0
                /\ args.transaction_type \in {INCOME, EXPENSE}
                /\ \E i \in 1..Len(args.category) : args.category[i] # " ")
        /\ (args.amount < 0 => ret.exc = "ValueError" /\ ret.tx = NoTx)
        /\ (ret.exc # "none" => ret.tx = NoTx)

C1_Witness ==
    /\ op = "Transaction"
    /\ args.amount = 0
    /\ ret.exc = "none"
    /\ ret.tx.amount = Num(0)

(***************************************************************************)
(* C2: after any sequence of appends starting from an empty store,         *)
(* get_all_transactions returns exactly the appended transactions, in      *)
(* insertion order, each equal in all five fields to the one appended,     *)
(* also when its description is the empty string.                          *)
(***************************************************************************)
C2_LoadReturnsAppended ==
    (op = "get_all_transactions" /\ log.clean) =>
        /\ Len(ret) = Len(log.appended)
        /\ \A i \in 1..Len(ret) : TxEq(ret[i], log.appended[i])

(***************************************************************************)
(* C3: for every Transaction t the constructor accepts,                    *)
(* Transaction.from_dict(t.to_dict()) succeeds and is equal to t.          *)
(***************************************************************************)
C3_RoundTrip ==
    op = "from_dict(to_dict)" =>
        /\ ret.back.exc = "none"
        /\ TxEq(ret.back.tx, ret.t)

(***************************************************************************)
(* C4: calculate_balance returns income = the sum of the amounts of the    *)
(* Income transactions, expense = the sum of the amounts of the Expense    *)
(* transactions and balance = income - expense; all three are 0 for the    *)
(* empty list.                                                             *)
(***************************************************************************)
RECURSIVE SumWhere(_, _)
SumWhere(txs, type) ==
    IF txs = <<>> THEN 0
    ELSE (IF Head(txs).transaction_type = type THEN Head(txs).amount.v ELSE 0)
         + SumWhere(Tail(txs), type)

C4_Balance ==
    op = "calculate_balance" =>
        LET income == SumWhere(args.transactions, INCOME)
            expense == SumWhere(args.transactions, EXPENSE)
        IN  /\ ret = [income |-> Num(income), expense |-> Num(expense),
                      balance |-> Num(income - expense)]
            /\ args.transactions = <<>> =>
                   ret = [income |-> Num(0), expense |-> Num(0),
                          balance |-> Num(0)]

C4_Witness ==
    /\ op = "calculate_balance"
    /\ Len(args.transactions) = MaxSeq
    /\ ret.income.v > 0
    /\ ret.expense.v > ret.income.v
    /\ ret.balance.v < 0

(***************************************************************************)
(* C5: get_calendar_events returns one event per transaction: the result   *)
(* is as long as the input and its i-th event carries the date of the      *)
(* i-th transaction, for inputs of length 0, 1 or more.                    *)
(***************************************************************************)
C5_OneEventPerTransaction ==
    op = "get_calendar_events" =>
        /\ ret.exc = "none"
        /\ Len(ret.events) = Len(args.transactions)
        /\ \A i \in 1..Len(ret.events) :
               i <= Len(args.transactions) =>
                   ret.events[i].start = strftime(args.transactions[i].date)

(***************************************************************************)
(* C6: calculate_balance, get_category_statistics and get_calendar_events  *)
(* return without raising for every list of valid Transactions, and the    *)
(* empty list gives zeros, an empty mapping and an empty event list.       *)
(***************************************************************************)
C6_AggregationsTotal ==
    /\ op = "calculate_balance" =>
           (args.transactions = <<>> =>
                ret = [income |-> Num(0), expense |-> Num(0), balance |-> Num(0)])
    /\ op = "get_category_statistics" =>
           (args.transactions = <<>> => ret.stats = <<>>)
    /\ op = "get_calendar_events" =>
           /\ ret.exc = "none"
           /\ args.transactions = <<>> => ret.events = <<>>

(***************************************************************************)
(* C7: get_all_transactions skips every stored row on which from_dict      *)
(* fails and returns all the other rows, in file order: a malformed row    *)
(* neither ends the load nor removes a valid row.                          *)
(***************************************************************************)
RowLoads(r) == from_dict(ReadRow(r)).exc = "none"

GoodRows == {i \in 1..Len(csv_rows) : RowLoads(csv_rows[i])}

\* the index in the file of the k-th row that loads
NthGood(k) ==
    CHOOSE i \in GoodRows : Cardinality({j \in GoodRows : j <= i}) = k

C7_SkipsMalformedRows ==
    op = "get_all_transactions" =>
        /\ Len(ret) = Cardinality(GoodRows)
        /\ \A k \in 1..Len(ret) :
               ret[k] = from_dict(ReadRow(csv_rows[NthGood(k)])).tx

C7_Witness ==
    /\ op = "get_all_transactions"
    /\ Len(csv_rows) = MaxRows
    /\ ~RowLoads(csv_rows[1])
    /\ RowLoads(csv_rows[2])
    /\ Len(ret) = Len(csv_rows) - 1

(***************************************************************************)
(* C8: get_transactions_by_date_range(start, end) returns exactly the      *)
(* transactions of get_all_transactions with start <= date <= end, both    *)
(* ends included, in ascending order of date.                              *)
(***************************************************************************)
Count(seq, x) == Cardinality({i \in 1..Len(seq) : seq[i] = x})

C8_DateRange ==
    op = "get_transactions_by_date_range" =>
        LET all == get_all_transactions(csv_rows)
            within(t) == DtLe(args[1], t.date) /\ DtLe(t.date, args[2])
        IN  /\ \A i \in 1..Len(ret) : within(ret[i])
            /\ \A i \in 1..Len(all) :
                   Count(ret, all[i]) = IF within(all[i]) THEN Count(all, all[i])
                                        ELSE 0
            /\ \A i, j \in 1..Len(ret) :
                   i < j => DtLe(ret[i].date, ret[j].date)

C8_Witness ==
    /\ op = "get_transactions_by_date_range"
    /\ \E i, j \in 1..Len(ret) :
           /\ ret[i].date = args[1]
           /\ ret[j].date = args[2]
           /\ i < j
    /\ Len(ret) < Len(get_all_transactions(csv_rows))
    /\ LET all == get_all_transactions(csv_rows)
       IN  \E i, j \in 1..Len(all) : i < j /\ DtLt(all[j].date, all[i].date)

(***************************************************************************)
(* C9: get_transactions_by_month(year, month) queries the range from       *)
(* 00:00:00 of the first day of the month through the end of its last      *)
(* day, so that a transaction dated at any time of the last day is         *)
(* included, for every year and month.                                     *)
(***************************************************************************)
C9_MonthThroughEndOfLastDay ==
    op = "get_transactions_by_month" =>
        LET last_day == monthrange(args[1], args[2])
        IN  /\ ret.range[1] = DT(args[1], args[2], 1, 0)
            /\ \A s \in {0, Noon, EndOfDay} :
                   /\ DtLe(ret.range[1], DT(args[1], args[2], last_day, s))
                   /\ DtLe(DT(args[1], args[2], last_day, s), ret.range[2])

(***************************************************************************)
(* C10: get_category_statistics returns its entries in descending order of *)
(* the summed amount, and categories with equal sums in the order in which *)
(* they were first met in the input.                                       *)
(***************************************************************************)
Matching(txs, transaction_type) ==
    SelectSeq(txs, LAMBDA t : transaction_type = ""
                              \/ t.transaction_type = transaction_type)

FirstIndex(txs, category) ==
    CHOOSE i \in 1..Len(txs) :
        /\ txs[i].category = category
        /\ \A j \in 1..(i - 1) : txs[j].category # category

C10_DescendingStable ==
    op = "get_category_statistics" =>
        LET counted == Matching(args.transactions, ret.transaction_type)
        IN  \A i, j \in 1..Len(ret.stats) :
                i < j =>
                    /\ ret.stats[i][2].v >= ret.stats[j][2].v
                    /\ ret.stats[i][2].v = ret.stats[j][2].v =>
                           FirstIndex(counted, ret.stats[i][1])
                               < FirstIndex(counted, ret.stats[j][1])

C10_Witness ==
    /\ op = "get_category_statistics"
    /\ Len(ret.stats) = 3
    /\ ret.stats[1][2] = ret.stats[2][2]
    /\ ret.stats[2][2].v > ret.stats[3][2].v
    /\ args.transactions[1].category = ret.stats[3][1]

(***************************************************************************)
(* C11: the keys of get_category_statistics are exactly the categories of  *)
(* the transactions that match the filter (all of them without a filter),  *)
(* each value is the sum of the amounts of the matching transactions of    *)
(* that category, the values add up to the total amount of the matching    *)
(* transactions, and a category without a matching transaction is absent.  *)
(***************************************************************************)
RECURSIVE SumAmounts(_)
SumAmounts(txs) ==
    IF txs = <<>> THEN 0 ELSE Head(txs).amount.v + SumAmounts(Tail(txs))

RECURSIVE SumValues(_)
SumValues(items) ==
    IF items = <<>> THEN 0 ELSE Head(items)[2].v + SumValues(Tail(items))

OfCategory(txs, category) == SelectSeq(txs, LAMBDA t : t.category = category)

C11_CategoryStatistics ==
    op = "get_category_statistics" =>
        LET counted == Matching(args.transactions, ret.transaction_type)
            keys == {ret.stats[i][1] : i \in 1..Len(ret.stats)}
        IN  /\ keys = {counted[i].category : i \in 1..Len(counted)}
            /\ Cardinality(keys) = Len(ret.stats)
            /\ \A i \in 1..Len(ret.stats) :
                   ret.stats[i][2]
                       = Num(SumAmounts(OfCategory(counted, ret.stats[i][1])))
            /\ SumValues(ret.stats) = SumAmounts(counted)
            /\ \A i \in 1..Len(args.transactions) :
                   OfCategory(counted, args.transactions[i].category) = <<>>
                       => args.transactions[i].category \notin keys

\* a filter leaves a category out, and another category sums two amounts
C11_Witness ==
    /\ op = "get_category_statistics"
    /\ ret.transaction_type # ""
    /\ \E i \in 1..Len(args.transactions) :
           \A k \in 1..Len(ret.stats) :
               ret.stats[k][1] # args.transactions[i].category
    /\ \E k \in 1..Len(ret.stats) :
           /\ ret.stats[k][2].v > 0
           /\ Len(OfCategory(Matching(args.transactions, ret.transaction_type),
                             ret.stats[k][1])) = 2
           /\ \A i \in 1..Len(args.transactions) :
                  args.transactions[i].category = ret.stats[k][1] =>
                      args.transactions[i].amount.v > 0

(***************************************************************************)
(* C18: for every valid Transaction, get_signed_amount returns +amount     *)
(* when it is an Income and -amount when it is an Expense.                 *)
(***************************************************************************)
C18_SignedAmount ==
    op = "get_signed_amount" =>
        /\ ret.t.transaction_type \in {INCOME, EXPENSE}
        /\ ret.t.transaction_type = INCOME => ret.signed = Num(ret.t.amount.v)
        /\ ret.t.transaction_type = EXPENSE =>
               ret.signed = Num(0 - ret.t.amount.v)

C18_Witness ==
    /\ op = "get_signed_amount"
    /\ ret.t.transaction_type = EXPENSE
    /\ ret.t.amount.v > 0
    /\ ret.signed.v < 0

(***************************************************************************)
(* C19: calculate_balance is additive over concatenation: the income and   *)
(* the expense of calculate_balance(A ++ B) are the sums of the incomes    *)
(* and of the expenses of calculate_balance(A) and calculate_balance(B).   *)
(***************************************************************************)
C19_BalanceAdditive ==
    op = "calculate_balance(A ++ B)" =>
        /\ FEq(ret.whole.income, FAdd(ret.left.income, ret.right.income))
        /\ FEq(ret.whole.expense, FAdd(ret.left.expense, ret.right.expense))

\* both parts are non-empty and both contribute to the income, and the
\* list has an expense as well
C19_Witness ==
    /\ op = "calculate_balance(A ++ B)"
    /\ ret.left.income.v > 0
    /\ ret.right.income.v > 0
    /\ ret.whole.expense.v > 0
    /\ ret.whole.income.v = ret.left.income.v + ret.right.income.v

(***************************************************************************)
(* C20: every calendar event is classified by a total function of the      *)
(* category and the type of its transaction into one of four pairwise      *)
(* distinct classes: trade-buy for the buy marker, trade-sell for the sell *)
(* marker, otherwise income for an Income, otherwise expense; the markers  *)
(* take precedence over the type.                                          *)
(***************************************************************************)
EventClass(category, transaction_type) ==
    IF category = STOCK_BUY THEN "trade-buy"
    ELSE IF category = STOCK_SELL THEN "trade-sell"
    ELSE IF transaction_type = INCOME THEN "income"
    ELSE "expense"

\* the class that a colour stands for; "none" for any other colour
ClassOfColor(color) ==
    IF color = "#FF6B6B" THEN "trade-buy"
    ELSE IF color = "#4ECDC4" THEN "trade-sell"
    ELSE IF color = "#51CF66" THEN "income"
    ELSE IF color = "#FFA94D" THEN "expense"
    ELSE "none"

\* the transaction that the k-th of the returned events was made from: the
\* events are those of the last transactions of the list
EventSource(txs, events, k) == txs[Len(txs) - Len(events) + k]

C20_FourWayClassification ==
    op = "get_calendar_events" =>
        \A k \in 1..Len(ret.events) :
            LET e == ret.events[k]
                t == EventSource(args.transactions, ret.events, k)
            IN  /\ ClassOfColor(e.backgroundColor)
                       = EventClass(t.category, t.transaction_type)
                /\ e.borderColor = e.backgroundColor
                /\ e.start = strftime(t.date)

\* an event of a buy that is an Expense, after an event source of another
\* class in the same list
C20_Witness ==
    /\ op = "get_calendar_events"
    /\ Len(ret.events) >= 1
    /\ LET t == EventSource(args.transactions, ret.events, Len(ret.events))
       IN  /\ t.category = STOCK_BUY
           /\ t.transaction_type = EXPENSE
           /\ ClassOfColor(ret.events[Len(ret.events)].backgroundColor)
                  = "trade-buy"
    /\ \E i \in 1..Len(args.transactions) :
           /\ args.transactions[i].category = STOCK_SELL
           /\ args.transactions[i].transaction_type = INCOME

(***************************************************************************)
(* C12: for a collection of n transactions and 0 <= i < n,                 *)
(* update_transaction(i, tx) replaces the entry at position i of the full  *)
(* ordered collection by tx, leaves every other position and the length    *)
(* unchanged, and persists the whole collection by exactly one rewrite of  *)
(* the whole store.                                                        *)
(***************************************************************************)
C12_UpdateReplacesAtIndex ==
    [][op' = "update_transaction" =>
          LET before == get_all_transactions(csv_rows)
              i == args'[1] + 1
              saved == ret'.saved
          IN  /\ i \in 1..Len(before)
              /\ Len(saved) = Len(before)
              /\ saved[i] = args'[2]
              /\ \A j \in 1..Len(before) : j # i => saved[j] = before[j]
              /\ Len(ret'.writes) = 1
              /\ csv_rows' = ret'.writes[1]
              /\ Len(csv_rows') = Len(saved)
              /\ \A j \in 1..Len(saved) :
                     csv_rows'[j] = WriteRow(to_dict(saved[j]))]_vars

\* the middle one of three transactions has been replaced by another one
C12_Witness ==
    /\ op = "update_transaction"
    /\ args[1] = 1
    /\ Len(ret.before) = 3
    /\ ret.before[2] # args[2]
    /\ ret.before[1] # ret.before[3]
    /\ ret.saved[2] = args[2]
    /\ Len(csv_rows) = 3

(***************************************************************************)
(* C13: for a collection of n transactions and 0 <= i < n,                 *)
(* delete_transaction(i) removes exactly the entry at position i: n - 1    *)
(* entries are left, the others in their previous relative order, and the  *)
(* result is persisted by exactly one rewrite of the whole store.          *)
(***************************************************************************)
C13_DeleteRemovesAtIndex ==
    [][op' = "delete_transaction" =>
          LET before == get_all_transactions(csv_rows)
              i == args'[1] + 1
              saved == ret'.saved
          IN  /\ i \in 1..Len(before)
              /\ Len(saved) = Len(before) - 1
              /\ \A j \in 1..Len(saved) :
                     saved[j] = IF j < i THEN before[j] ELSE before[j + 1]
              /\ Len(ret'.writes) = 1
              /\ csv_rows' = ret'.writes[1]
              /\ Len(csv_rows') = Len(saved)
              /\ \A j \in 1..Len(saved) :
                     csv_rows'[j] = WriteRow(to_dict(saved[j]))]_vars

\* the middle one of three different transactions has been removed
C13_Witness ==
    /\ op = "delete_transaction"
    /\ args[1] = 1
    /\ Len(ret.before) = 3
    /\ ret.before[1] # ret.before[2]
    /\ ret.before[2] # ret.before[3]
    /\ ret.saved = <<ret.before[1], ret.before[3]>>
    /\ Len(csv_rows) = 2

(***************************************************************************)
(* C17: get_monthly_summary(year, month) is the composition over           *)
(* T = get_transactions_by_month(year, month): total_income, total_expense *)
(* and balance are those of calculate_balance(T), income_by_category and   *)
(* expense_by_category are get_category_statistics(T) filtered by Income   *)
(* and by Expense, and transaction_count is the number of transactions of  *)
(* T.                                                                      *)
(***************************************************************************)
C17_MonthlySummary ==
    op = "get_monthly_summary" =>
        LET T == get_transactions_by_month(csv_rows, args[1], args[2])
        IN  /\ ret.total_income = calculate_balance(T).income
            /\ ret.total_expense = calculate_balance(T).expense
            /\ ret.balance = calculate_balance(T).balance
            /\ ret.income_by_category = get_category_statistics(T, INCOME)
            /\ ret.expense_by_category = get_category_statistics(T, EXPENSE)
            /\ ret.transaction_count = Len(T)
            /\ DOMAIN ret = {"total_income", "total_expense", "balance",
                             "income_by_category", "expense_by_category",
                             "transaction_count"}

\* the month holds an income and an expense, and the store a transaction of
\* another month
C17_Witness ==
    /\ op = "get_monthly_summary"
    /\ ret.transaction_count = 2
    /\ Len(get_all_transactions(csv_rows)) = 3
    /\ Len(ret.income_by_category) = 1
    /\ Len(ret.expense_by_category) = 1
    /\ ret.total_income.v > 0
    /\ ret.total_expense.v > ret.total_income.v

(***************************************************************************)
(* C14: after delete_all_transactions, whatever the store held before,     *)
(* get_all_transactions and every range or month query return the empty    *)
(* sequence without error, and a following append yields a store holding   *)
(* exactly that one transaction.                                           *)
(***************************************************************************)
C14_EmptyAfterDeleteAll ==
    /\ (log.wiped /\ log.appended = <<>>) =>
           /\ csv_exists
           /\ csv_rows = <<>>
           /\ op \in {"get_all_transactions", "get_transactions_by_date_range"}
                  => ret = <<>>
           /\ op = "get_transactions_by_month" => ret.transactions = <<>>
    /\ (log.wiped /\ Len(log.appended) = 1) =>
           /\ csv_rows = <<WriteRow(to_dict(log.appended[1]))>>
           /\ op = "get_all_transactions" =>
                  /\ Len(ret) = 1
                  /\ ret[1].category = log.appended[1].category
                  /\ FEq(ret[1].amount, log.appended[1].amount)
                  /\ ret[1].transaction_type = log.appended[1].transaction_type
                  /\ SameDay(ret[1].date, log.appended[1].date)

\* a store that held rows was emptied, one transaction was appended and the
\* store was read
C14_Witness ==
    /\ op = "get_all_transactions"
    /\ log.wiped
    /\ log.held
    /\ Len(log.appended) = 1
    /\ Len(ret) = 1

BothDone == \A p \in Writers : proc[p].pc = "done"

\* the position of an event in the history
EventAt(p, step) == CHOOSE k \in 1..Len(log.events) : log.events[k] = <<p, step>>

\* both callers read before either wrote
Overlap ==
    \A p, q \in Writers : EventAt(p, "read") < EventAt(q, "write")

LastWriter == log.events[Len(log.events)][1]

FirstWriter == CHOOSE p \in Writers : p # LastWriter

Record(p) == WriteRow(to_dict(proc[p].transaction))

C16_ConcurrentAppends ==
    (op \in {"read_csv", "to_csv"} /\ BothDone) =>
        LET base == to_csv(read_csv(log.base))
        IN  /\ Overlap => csv_rows = base \o <<Record(LastWriter)>>
            /\ ~Overlap =>
                   csv_rows = base \o <<Record(FirstWriter), Record(LastWriter)>>

\* both callers read a store of one row before either wrote, and the record
\* of the first writer is not in the final store
C16_Witness ==
    /\ op = "to_csv"
    /\ BothDone
    /\ Overlap
    /\ Len(log.base) = 1
    /\ Len(csv_rows) = 2
    /\ Record(FirstWriter) # Record(LastWriter)
    /\ \A i \in 1..Len(csv_rows) : csv_rows[i] # Record(FirstWriter)

(***************************************************************************)
(* C21: the date held by a Transaction is normalized to the start of the   *)
(* day: a Transaction constructed from a datetime with a time of day holds *)
(* 00:00:00 of that calendar date.                                         *)
(***************************************************************************)
C21_DateNormalized ==
    (op = "Transaction" /\ ret.exc = "none") =>
        ret.tx.date = DT(args.date.y, args.date.m, args.date.d, 0)

(***************************************************************************)
(* C22: every rejected input is reported with one error kind: construction *)
(* with a non-date date or a non-numeric amount, and from_dict on a record *)
(* that misses a required key or whose date does not parse, fail with the  *)
(* error kind of a negative amount, and never return a Transaction.        *)
(***************************************************************************)
C22_SingleErrorKind ==
    (op \in {"Transaction", "Transaction(typed)", "from_dict"}
         /\ ret.exc # "none") =>
        /\ ret.exc = "ValueError"
        /\ ret.tx = NoTx

\* C22 as amended: a rejected input raises and returns no Transaction; the
\* constructor raises TypeError for an argument of the wrong type and
\* ValueError for a negative amount, an unknown type or a blank category;
\* from_dict raises KeyError for a missing required key and ValueError for a
\* date that does not parse or an amount that is no number, whichever it
\* meets first in the order date, category, amount, type, and otherwise what
\* the constructor raises.
RequiredKeys == {"date", "category", "amount", "type"}

ValueRejected(amount, type, category) ==
    \/ amount < 0
    \/ type \notin {INCOME, EXPENSE}
    \/ \A i \in 1..Len(category) : category[i] = " "

DateParses(dtext) ==
    /\ dtext.fmt \in {"Y-m-d", "Y/m/d", "iso"}
    /\ dtext.m \in 1..12
    /\ dtext.d \in 1..monthrange(dtext.y, dtext.m)

ExpectedFromDict(data) ==
    IF "date" \notin data.has THEN "KeyError"
    ELSE IF ~DateParses(data.date) THEN "ValueError"
    ELSE IF "category" \notin data.has THEN "KeyError"
    ELSE IF "amount" \notin data.has THEN "KeyError"
    ELSE IF data.amount = TextVal THEN "ValueError"
    ELSE IF "type" \notin data.has THEN "KeyError"
    ELSE IF ValueRejected(data.amount.f.v, data.type.s[1], data.category.s)
         THEN "ValueError"
    ELSE "none"

C22_ErrorKinds ==
    /\ op \in {"Transaction", "Transaction(typed)", "from_dict"} =>
           /\ ret.exc \in {"none", "TypeError", "ValueError", "KeyError"}
           /\ ret.exc # "none" <=> ret.tx = NoTx
    /\ op = "Transaction(typed)" =>
           ret.exc = IF args.date.ty # "datetime" \/ args.amount.ty = "str"
                     THEN "TypeError"
                     ELSE IF ValueRejected(args.amount.f.v,
                                           args.transaction_type, args.category)
                     THEN "ValueError"
                     ELSE "none"
    /\ op = "from_dict" => ret.exc = ExpectedFromDict(args.data)

\* a record with a date that parses and no type key was rejected with KeyError
C22_Witness ==
    /\ op = "from_dict"
    /\ "type" \notin args.data.has
    /\ args.data.amount = FloatVal(Num(5))
    /\ ret.exc = "KeyError"
    /\ ret.tx = NoTx

(***************************************************************************)
(* C23: two Transactions are equal if and only if all five fields are      *)
(* equal; equality is reflexive, symmetric and transitive, a Transaction   *)
(* is never equal to a non-Transaction, and equal Transactions have equal  *)
(* hashes.                                                                 *)
(***************************************************************************)
FieldsEqual(a, b) ==
    /\ a.date.y = b.date.y /\ a.date.m = b.date.m /\ a.date.d = b.date.d
    /\ a.date.s = b.date.s
    /\ a.category = b.category
    /\ a.amount.v = b.amount.v
    /\ a.transaction_type = b.transaction_type
    /\ a.description = b.description

C23_Equality ==
    op = "__eq__" =>
        /\ ret.ab <=> FieldsEqual(args.a, args.b)
        /\ ret.aa
        /\ ret.ab <=> ret.ba
        /\ (ret.ab /\ ret.bc) => ret.ac
        /\ ~ret.a_dict
        /\ ret.ab => ret.hash_a = ret.hash_b

\* Transactions that differ in the description only were compared
C23_Witness ==
    /\ op = "__eq__"
    /\ args.a.description # args.b.description
    /\ [args.a EXCEPT !.description = <<>>] = [args.b EXCEPT !.description = <<>>]
    /\ ~ret.ab
    /\ ret.bc
    /\ ~ret.ac

(***************************************************************************)
(* C24: from_dict tries YYYY-MM-DD, then YYYY/MM/DD, then ISO-8601 with    *)
(* the time and zone suffix ignored, and the first that parses wins: for   *)
(* every calendar date d the records whose date is d written as            *)
(* 'YYYY-MM-DD', as 'YYYY/MM/DD' and as 'YYYY-MM-DDTHH:MM:SS' all give a   *)
(* Transaction with the same date, the start of day d.                     *)
(***************************************************************************)
C24_DateFormats ==
    (op = "from_dict" /\ DateParses(args.data.date)) =>
        /\ ret.exc = ExpectedFromDict(args.data)
        /\ ret.exc = "none" =>
               ret.tx.date = DT(args.data.date.y, args.data.date.m,
                                args.data.date.d, 0)
        /\ \A fmt \in {"Y-m-d", "Y/m/d", "iso"} :
               from_dict([args.data EXCEPT !.date.fmt = fmt]) = ret

\* the ISO text of a leap day was parsed
C24_Witness ==
    /\ op = "from_dict"
    /\ args.data.date = DateText("iso", 2024, 2, 29)
    /\ ret.exc = "none"
    /\ ret.tx.date = DT(2024, 2, 29, 0)

(***************************************************************************)
(* C25: the save action of the UI records a transaction only when          *)
(* amount > 0: with amount <= 0 no Transaction is constructed and the      *)
(* store is left unchanged; hence after any sequence of save actions on an *)
(* initially empty store every stored transaction has amount > 0.          *)
(***************************************************************************)
C25_SaveOnlyPositive ==
    [][/\ (op' = "save_button" /\ args'.amount <= 0) =>
              /\ csv_rows' = csv_rows
              /\ ret'.transaction = NoTx
       /\ (op' = "save_button" /\ args'.amount > 0) =>
              /\ Len(csv_rows') = Len(csv_rows) + 1
              /\ ret'.transaction.amount = Num(args'.amount)
       /\ \A i \in 1..Len(csv_rows') :
              /\ csv_rows'[i].amount.k = "num"
              /\ csv_rows'[i].amount.v > 0
       /\ \A i \in 1..Len(get_all_transactions(csv_rows')) :
              get_all_transactions(csv_rows')[i].amount.v > 0]_vars

\* a click with amount 0 on a store of two transactions left the two
C25_Witness ==
    /\ op = "save_button"
    /\ args.amount = 0
    /\ ret.message = "error"
    /\ Len(csv_rows) = 2
    /\ Len(get_all_transactions(csv_rows)) = 2

(***************************************************************************)
(* C26: get_daily_transactions(date) returns exactly the stored            *)
(* transactions whose calendar day is that of the argument, whatever time  *)
(* of day the argument carries: the range is 00:00:00 to 23:59:59 of that  *)
(* day, and no transaction of the day before or after is returned.         *)
(***************************************************************************)
C26_DailyTransactions ==
    op = "get_daily_transactions" =>
        LET all == get_all_transactions(csv_rows)
        IN  /\ \A i \in 1..Len(ret) : SameDay(ret[i].date, args[1])
            /\ \A i \in 1..Len(all) :
                   Count(ret, all[i]) = IF SameDay(all[i].date, args[1])
                                        THEN Count(all, all[i])
                                        ELSE 0

\* the day was asked for at noon; the store holds a transaction of that day
\* and one of the next day
C26_Witness ==
    /\ op = "get_daily_transactions"
    /\ args[1] = DT(2024, 1, 31, Noon)
    /\ Len(ret) = 1
    /\ ret[1].date = DT(2024, 1, 31, 0)
    /\ \E i \in 1..Len(get_all_transactions(csv_rows)) :
           get_all_transactions(csv_rows)[i].date = DT(2024, 2, 1, 0)


(***************************************************************************)
(* C27: whatever the file holds and whatever store operations came before, *)
(* every Transaction returned by get_all_transactions or by a range or     *)
(* month query satisfies the Transaction invariants: amount >= 0, a known  *)
(* type tag, a non-empty trimmed category, and a trimmed description that  *)
(* is the empty string when there is none, never the text of a NaN.        *)
(***************************************************************************)
TransactionInvariants(t) ==
    /\ ~t.amount.nan /\ t.amount.v >= 0
    /\ t.transaction_type \in {INCOME, EXPENSE}
    /\ t.category # <<>> /\ t.category = Strip(t.category)
    /\ t.description = Strip(t.description)
    /\ t.description # NanStr

Returned ==
    IF op \in {"get_all_transactions", "get_transactions_by_date_range",
               "get_daily_transactions"}
    THEN ret
    ELSE IF op = "get_transactions_by_month" THEN ret.transactions
    ELSE <<>>

\* C27: every Transaction a query returns satisfies the Transaction invariants
C27_LoadedInvariants ==
    \A i \in 1..Len(Returned) : TransactionInvariants(Returned[i])

(***************************************************************************)
(* C28: the read-only operations (get_all_transactions, the range, month   *)
(* and daily queries, get_monthly_summary, calculate_balance,              *)
(* get_category_statistics, get_calendar_events) leave the file as it was, *)
(* content and order, although a range query returns a date-sorted list;   *)
(* the list given to a service function is still the list that was loaded. *)
(***************************************************************************)
QueryOps ==
    {"get_all_transactions", "get_transactions_by_date_range",
     "get_transactions_by_month", "get_daily_transactions",
     "get_monthly_summary"}

ServiceOps ==
    {"calculate_balance(get_all_transactions())",
     "get_category_statistics(get_all_transactions())",
     "get_calendar_events(get_all_transactions())"}

C28_ReadOnly ==
    [][(op' \in QueryOps \cup ServiceOps) =>
           /\ csv_exists' = csv_exists
           /\ csv_rows' = csv_rows
           /\ get_all_transactions(csv_rows') = get_all_transactions(csv_rows)
           /\ (op' \in ServiceOps =>
                   args'[1] = get_all_transactions(csv_rows'))]_vars

\* a range query has returned two transactions by date, which the file holds
\* in the other order
C28_Witness ==
    /\ op = "get_transactions_by_date_range"
    /\ Len(ret) = 2
    /\ DtLt(ret[1].date, ret[2].date)
    /\ Len(csv_rows) = 2
    /\ get_all_transactions(csv_rows) = <<ret[2], ret[1]>>


(***************************************************************************)
(* C29: for every list of valid Transactions the balance returned by       *)
(* calculate_balance is the sum of get_signed_amount() over the list, and  *)
(* income >= 0, expense >= 0 and balance <= income.                        *)
(***************************************************************************)
RECURSIVE SumSigned(_)
SumSigned(txs) ==
    IF txs = <<>> THEN Num(0)
    ELSE FAdd(get_signed_amount(Head(txs)), SumSigned(Tail(txs)))

C29_BalanceIsSignedSum ==
    op = "calculate_balance" =>
        /\ ret.balance = SumSigned(args.transactions)
        /\ ~ret.income.nan /\ ret.income.v >= 0
        /\ ~ret.expense.nan /\ ret.expense.v >= 0
        /\ ~ret.balance.nan /\ ret.balance.v <= ret.income.v

\* incomes and expenses in one list, the expenses the larger part
C29_Witness ==
    /\ op = "calculate_balance"
    /\ Len(args.transactions) = 3
    /\ ret.income.v > 0
    /\ ret.expense.v > ret.income.v
    /\ ret.balance.v < 0


(***************************************************************************)
(* C30: month queries partition a store whose transactions carry date-only *)
(* (midnight) dates: every transaction that get_all_transactions returns   *)
(* is returned by get_transactions_by_month(year, month) for exactly one   *)
(* (year, month), that of its date, so the transaction counts of the       *)
(* monthly summaries over all months add up to the size of the collection. *)
(***************************************************************************)
MonthOf(t) == <<t.date.y, t.date.m>>

RECURSIVE SumCounts(_, _)
SumCounts(rows, months) ==
    IF months = {} THEN 0
    ELSE LET ym == CHOOSE x \in months : TRUE
         IN  get_monthly_summary(rows, ym[1], ym[2]).transaction_count
                 + SumCounts(rows, months \ {ym})

C30_MonthsPartition ==
    op \in {"get_transactions_by_month", "get_monthly_summary"} =>
        LET all == get_all_transactions(csv_rows)
        IN  (\A i \in 1..Len(all) : all[i].date.s = 0) =>
                /\ \A i \in 1..Len(all) :
                       /\ MonthOf(all[i]) \in MonthInputs
                       /\ \A ym \in MonthInputs :
                              Count(get_transactions_by_month(csv_rows, ym[1],
                                                              ym[2]), all[i])
                                  = IF ym = MonthOf(all[i])
                                    THEN Count(all, all[i])
                                    ELSE 0
                /\ SumCounts(csv_rows, MonthInputs) = Len(all)

\* the summary of January, of a store that holds a transaction of the last
\* day of January and one of the first day of February
C30_Witness ==
    /\ op = "get_monthly_summary"
    /\ args = <<2024, 1>>
    /\ LET all == get_all_transactions(csv_rows)
       IN  /\ \E i \in 1..Len(all) : all[i].date = DT(2024, 1, 31, 0)
           /\ \E i \in 1..Len(all) : all[i].date = DT(2024, 2, 1, 0)
           /\ ret.transaction_count >= 1
           /\ ret.transaction_count < Len(all)

====
